---- MODULE Spec2Model ----
(***************************************************************************)
(* A model of the programs shown in two keras-io guides:                   *)
(*   - "Customizing what happens in fit() with JAX"                        *)
(*     (guides/ipynb/keras_core/custom_train_step_in_jax.ipynb): the three *)
(*     CustomModel classes, their train_step / test_step, and the fit() /  *)
(*     evaluate() runs that drive them;                                    *)
(*   - "The Sequential model" (unnamed/part_000): a Sequential model as a  *)
(*     stack of layers with add() / pop() / call / weights / summary.      *)
(* Tensors are abstracted to integers: the model has one trainable weight, *)
(* one non-trainable counter, one optimizer variable (its iteration count) *)
(* and two variables (total, count) per metric.                            *)
(***************************************************************************)
EXTENDS Integers, Sequences, FiniteSets, TLC

\* ------------------------------------------------------------------ bounds
\* Largest `epochs` argument given to fit().
MaxEpochs == 2
\* Batches per epoch (dataset size / batch size).
BatchesPerEpoch == 2
\* Largest number of layers a Sequential model is grown to.
MaxLayers == 3
\* Largest number of add() and pop() calls made on a Sequential model.
MaxOps == 5

\* Batches (x, y) a dataset may hold.
DataSet == {<<1, 0>>, <<1, 2>>, <<2, 1>>}
\* Initial value of the trainable weight (random initialisation).
InitialWeights == {0, 1}
\* Test inputs a Sequential model is called on.
TestInputs == {1, 2, 3}

VARIABLES
    cell,       \* which notebook program runs: "first", "lower", "eval", "seq"
    pc,         \* control position of that program
    epochs,     \* the `epochs` argument of fit()
    epoch,      \* epochs completed by fit()
    step,       \* batches completed in the current epoch / evaluation
    objVars,    \* variables held by the model, optimizer and metric objects
    state,      \* the state tuple held by the fit() / evaluate() loop
    stateArg,   \* the `state` parameter of the running train_step / test_step
    data,       \* the `data` parameter of the running step: <<x, y>>
    loc,        \* local names of the running step
    logs,       \* the logs fit() / evaluate() received from the last step
    calls,      \* how often each step function was called by fit()
    applyLog,   \* arguments of each optimizer.stateless_apply call of the running step
    epochLog,   \* <<loss, abs error>> of each batch of the current epoch / evaluation
    seqLayers,  \* Sequential._layers: the Input object, if given, and the layers
    seqBuilt,   \* Sequential.built
    seqCalled,  \* whether the Sequential model has been called on data
    seqOps,     \* the plain list built by the same appends and last-element removals
    seqCounts,  \* number of add() calls of a layer and of pop() calls made
    seqResult,  \* result of the last Sequential operation
    seqTrace    \* layer applications of the last Sequential call

trainVars == <<epochs, epoch, step, objVars, state, stateArg, data, loc, logs,
               calls, applyLog, epochLog>>
seqVars == <<seqLayers, seqBuilt, seqCalled, seqOps, seqCounts, seqResult, seqTrace>>
vars == <<cell, pc, epochs, epoch, step, objVars, state, stateArg, data, loc, logs,
          calls, applyLog, epochLog,
          seqLayers, seqBuilt, seqCalled, seqOps, seqCounts, seqResult, seqTrace>>

\* ----------------------------------------------------------------- helpers
Abs(n) == IF n < 0 THEN -n ELSE n
Sign(n) == IF n > 0 THEN 1 ELSE IF n < 0 THEN -1 ELSE 0

RECURSIVE SumSeq(_)
SumSeq(s) == IF s = <<>> THEN 0 ELSE Head(s) + SumSeq(Tail(s))

RECURSIVE Zeros(_)
Zeros(n) == IF n = 0 THEN <<>> ELSE <<0>> \o Zeros(n - 1)

\* ------------------------------------------------- framework calls (pure)
\* self.stateless_call(trainable_variables, non_trainable_variables, x, training)
StatelessCall(tv, ntv, x, training) ==
    [y_pred |-> tv * x, ntv |-> IF training THEN ntv + 1 ELSE ntv]

\* loss="mse" / keras.losses.MeanSquaredError()
MeanSquaredError(y, y_pred) == (y - y_pred) * (y - y_pred)

\* CustomModel.compute_loss_and_updates: returns loss, (y_pred, non_trainable_variables)
ComputeLossAndUpdates(tv, ntv, x, y, training) ==
    LET out == StatelessCall(tv, ntv, x, training)
    IN [loss |-> MeanSquaredError(y, out.y_pred), y_pred |-> out.y_pred, ntv |-> out.ntv]

\* jax.value_and_grad(self.compute_loss_and_updates, has_aux=True): the value at the
\* first argument and the derivative of the loss in it (the central difference is
\* exact for a loss quadratic in the weight).
ValueAndGrad(tv, ntv, x, y, training) ==
    LET val == ComputeLossAndUpdates(tv, ntv, x, y, training)
        up == ComputeLossAndUpdates(tv + 1, ntv, x, y, training).loss
        down == ComputeLossAndUpdates(tv - 1, ntv, x, y, training).loss
    IN [loss |-> val.loss, y_pred |-> val.y_pred, ntv |-> val.ntv,
        grads |-> (up - down) \div 2]

\* self.optimizer.stateless_apply(optimizer_variables, grads, trainable_variables):
\* returns (trainable_variables, optimizer_variables); one unit step against the
\* gradient's sign, and the iteration count advanced.
StatelessApply(ov, grads, tv) == [tv |-> tv - Sign(grads), ov |-> ov + 1]

\* metric.stateless_update_state(vars, loss) of a Mean metric
MeanUpdateState(mvars, value) == <<mvars[1] + value, mvars[2] + 1>>

\* metric.stateless_update_state(vars, y, y_pred) of a MeanAbsoluteError metric
MaeUpdateState(mvars, y, y_pred) == <<mvars[1] + Abs(y - y_pred), mvars[2] + 1>>

\* metric.stateless_result(vars): total / count, 0 when nothing was seen
StatelessResult(mvars) == IF mvars[2] = 0 THEN 0 ELSE mvars[1] \div mvars[2]

\* The metric objects: loss_tracker and mae_metric, each with (total, count).
LossTracker == [name |-> "loss", nvars |-> 2]
MaeMetric == [name |-> "mae", nvars |-> 2]

\* Every metric object the model holds, in creation order.
MetricObjects == <<LossTracker, MaeMetric>>

\* self.metrics after compile(loss="mse", metrics=["mae"]): the loss tracker first.
CompiledMetrics == <<LossTracker, MaeMetric>>

\* A `metrics` property that leaves mae_metric out.
MetricsPropertyLossOnly == <<LossTracker>>

\* The lower-level example's `metrics` property.
MetricsProperty == <<LossTracker, MaeMetric>>

\* self.metrics of the CustomModel of notebook program c.
Metrics(c) == IF c = "lower" THEN MetricsProperty ELSE CompiledMetrics

\* Python's s[lo:hi] (0-based, clamped to the list).
Slice(s, lo, hi) == SubSeq(s, lo + 1, IF hi < Len(s) THEN hi ELSE Len(s))

\* Offset of metric object m's variables in the flat list of metric variables.
RECURSIVE OffsetOf(_, _)
OffsetOf(m, objs) ==
    IF objs = <<>> \/ Head(objs) = m THEN 0 ELSE Head(objs).nvars + OffsetOf(m, Tail(objs))

NumMetricVars == SumSeq([i \in 1..Len(MetricObjects) |-> MetricObjects[i].nvars])

\* reset_state() of every metric listed in self.metrics, on the objects' variables.
ResetMetrics(c, mv) ==
    [i \in 1..Len(mv) |->
        IF \E k \in 1..Len(Metrics(c)) :
               /\ i > OffsetOf(Metrics(c)[k], MetricObjects)
               /\ i <= OffsetOf(Metrics(c)[k], MetricObjects) + Metrics(c)[k].nvars
        THEN 0 ELSE mv[i]]

\* -------------------------------------------------------------------- Init
NoLogs == [kind |-> "none", value |-> 0]
NoLoc == [tv |-> 0, ntv |-> 0, ov |-> 0, mv |-> <<>>, loss |-> 0, y_pred |-> 0,
          grads |-> 0, new_mv |-> <<>>, logs |-> NoLogs]
NoState == [tv |-> 0, ntv |-> 0, ov |-> 0, mv |-> <<>>]

NoResult == [op |-> "none", error |-> FALSE, input |-> 0, value |-> <<>>]

Init ==
    /\ cell \in {"first", "lower", "eval", "seq"}
    /\ pc = "start"
    /\ epochs = 0
    /\ epoch = 0
    /\ step = 0
    /\ \E w \in (IF cell = "seq" THEN {0} ELSE InitialWeights) :
           objVars = [tv |-> w, ntv |-> 0, ov |-> 0, mv |-> Zeros(NumMetricVars)]
    /\ state = NoState
    /\ stateArg = NoState
    /\ data = <<0, 0>>
    /\ loc = NoLoc
    /\ logs = NoLogs
    /\ calls = [custom |-> 0, builtin |-> 0]
    /\ applyLog = <<>>
    /\ epochLog = <<>>
    /\ seqLayers = <<>>
    /\ seqBuilt = FALSE
    /\ seqCalled = FALSE
    /\ seqOps = <<>>
    /\ seqCounts = [adds |-> 0, pops |-> 0]
    /\ seqResult = NoResult
    /\ seqTrace = <<>>

\* ------------------------------------------------------------------- fit()
\* model.fit(x, y, epochs=E)
FitBegin ==
    /\ cell \in {"first", "lower"}
    /\ pc = "start"
    /\ \E e \in 1..MaxEpochs : epochs' = e
    /\ epoch' = 0
    /\ pc' = "epoch_begin"
    /\ UNCHANGED <<cell, step, objVars, state, stateArg, data, loc, logs, calls,
                   applyLog, epochLog>>
    /\ UNCHANGED seqVars

\* Start of an epoch: the metrics listed in self.metrics are reset, and the loop's
\* state tuple is read from the objects' variables.
EpochBegin ==
    /\ cell \in {"first", "lower"}
    /\ pc = "epoch_begin"
    /\ objVars' = [objVars EXCEPT !.mv = ResetMetrics(cell, objVars.mv)]
    /\ state' = objVars'
    /\ step' = 0
    /\ epochLog' = <<>>
    /\ pc' = "batch"
    /\ UNCHANGED <<cell, epochs, epoch, stateArg, data, loc, logs, calls, applyLog>>
    /\ UNCHANGED seqVars

\* A class whose step method does not override Model.train_step (a misnamed method).
TrainFunctionNotOverridden(c) == "builtin"

\* The step function fit() runs for a batch: the class's own train_step when it
\* overrides Model.train_step.
TrainFunction(c) == IF c \in {"first", "lower"} THEN "custom" ELSE "builtin"

\* Whether the batch just finished (the s-th of the epoch, counted from 0) was the last.
EpochFinished(s) == s + 1 = BatchesPerEpoch

\* What the batch contributes to the epoch's loss and mae, from the weights the
\* step was given.
BatchRecord(st, d, training) ==
    LET out == StatelessCall(st.tv, st.ntv, d[1], training)
    IN <<MeanSquaredError(d[2], out.y_pred), Abs(d[2] - out.y_pred)>>

\* fit() calls self.train_step(state, data) on the next batch; train_step unpacks
\* its arguments.
TrainStepCall ==
    /\ cell \in {"first", "lower"}
    /\ pc = "batch"
    /\ \E d \in DataSet : data' = d
    /\ stateArg' = state
    /\ loc' = [NoLoc EXCEPT !.tv = state.tv, !.ntv = state.ntv, !.ov = state.ov,
                            !.mv = state.mv]
    /\ calls' = [calls EXCEPT ![TrainFunction(cell)] = @ + 1]
    /\ applyLog' = <<>>
    /\ epochLog' = Append(epochLog, BatchRecord(state, data', TRUE))
    /\ pc' = IF TrainFunction(cell) = "custom" THEN "grad" ELSE "builtin_step"
    /\ UNCHANGED <<cell, epochs, epoch, step, objVars, state, logs>>
    /\ UNCHANGED seqVars

\* train_step: grad_fn = jax.value_and_grad(...); (loss, (y_pred, ntv)), grads = grad_fn(...)
ComputeGradients ==
    /\ cell \in {"first", "lower"}
    /\ pc = "grad"
    /\ LET g == ValueAndGrad(loc.tv, loc.ntv, data[1], data[2], TRUE)
       IN loc' = [loc EXCEPT !.loss = g.loss, !.y_pred = g.y_pred, !.ntv = g.ntv,
                             !.grads = g.grads]
    /\ pc' = "apply"
    /\ UNCHANGED <<cell, epochs, epoch, step, objVars, state, stateArg, data, logs,
                   calls, applyLog, epochLog>>
    /\ UNCHANGED seqVars

\* train_step: trainable_variables, optimizer_variables =
\*     self.optimizer.stateless_apply(optimizer_variables, grads, trainable_variables)
ApplyOptimizer ==
    /\ cell \in {"first", "lower"}
    /\ pc = "apply"
    /\ LET a == StatelessApply(loc.ov, loc.grads, loc.tv)
       IN loc' = [loc EXCEPT !.tv = a.tv, !.ov = a.ov]
    /\ applyLog' = Append(applyLog, [ov |-> loc.ov, grads |-> loc.grads, tv |-> loc.tv])
    /\ pc' = "metrics"
    /\ UNCHANGED <<cell, epochs, epoch, step, objVars, state, stateArg, data, logs,
                   calls, epochLog>>
    /\ UNCHANGED seqVars

\* The metric loop of the first example's train_step and of test_step:
\*     for metric in self.metrics: slice, update, logs = result, new_metrics_vars += ...
RECURSIVE MetricLoop(_, _, _, _, _, _, _)
MetricLoop(metrics, metrics_variables, new_metrics_vars, lg, loss, y, y_pred) ==
    IF metrics = <<>>
    THEN [logs |-> lg, new_mv |-> new_metrics_vars]
    ELSE LET metric == Head(metrics)
             sliced == Slice(metrics_variables, Len(new_metrics_vars),
                             Len(new_metrics_vars) + metric.nvars)
             this_metric_vars ==
                 IF metric.name = "loss"
                 THEN MeanUpdateState(sliced, loss)
                 ELSE MaeUpdateState(sliced, y, y_pred)
         IN MetricLoop(Tail(metrics), metrics_variables,
                       new_metrics_vars \o this_metric_vars,
                       [kind |-> "scalar", value |-> StatelessResult(this_metric_vars)],
                       loss, y, y_pred)

\* The explicit metric update of the lower-level train_step.
LowerMetricUpdate(metrics_variables, loss, y, y_pred) ==
    LET loss_tracker_vars0 == Slice(metrics_variables, 0, LossTracker.nvars)
        mae_metric_vars0 == Slice(metrics_variables, LossTracker.nvars,
                                  Len(metrics_variables))
        loss_tracker_vars == MeanUpdateState(loss_tracker_vars0, loss)
        mae_metric_vars == MaeUpdateState(mae_metric_vars0, y, y_pred)
    IN [logs |-> [kind |-> "dict",
                  value |-> [loss |-> StatelessResult(loss_tracker_vars),
                             mae |-> StatelessResult(mae_metric_vars)]],
        new_mv |-> loss_tracker_vars \o mae_metric_vars]

\* train_step of program c, from "# Update metrics." on.
StepMetrics(c, metrics_variables, loss, y, y_pred) ==
    IF c = "lower"
    THEN LowerMetricUpdate(metrics_variables, loss, y, y_pred)
    ELSE MetricLoop(Metrics(c), metrics_variables, <<>>, NoLogs, loss, y, y_pred)

\* A train_step that updates the metric objects in place (metric.update_state).
UpdateMetricsStateful ==
    /\ cell \in {"first", "lower"}
    /\ pc = "metrics"
    /\ LET m == StepMetrics(cell, loc.mv, loc.loss, data[2], loc.y_pred)
       IN /\ loc' = [loc EXCEPT !.logs = m.logs, !.new_mv = m.new_mv]
          /\ objVars' = [objVars EXCEPT !.mv = m.new_mv]
    /\ pc' = "return"
    /\ UNCHANGED <<cell, epochs, epoch, step, state, stateArg, data, logs,
                   calls, applyLog, epochLog>>
    /\ UNCHANGED seqVars

\* A train_step that feeds the metrics a loss and a prediction recomputed from the
\* updated trainable variables.
UpdateMetricsFromUpdated ==
    /\ cell \in {"first", "lower"}
    /\ pc = "metrics"
    /\ LET again == ComputeLossAndUpdates(loc.tv, loc.ntv, data[1], data[2], TRUE)
           m == StepMetrics(cell, loc.mv, again.loss, data[2], again.y_pred)
       IN loc' = [loc EXCEPT !.logs = m.logs, !.new_mv = m.new_mv]
    /\ pc' = "return"
    /\ UNCHANGED <<cell, epochs, epoch, step, objVars, state, stateArg, data, logs,
                   calls, applyLog, epochLog>>
    /\ UNCHANGED seqVars

\* train_step, from "# Update metrics." to the logs and the new metric variables.
UpdateMetrics ==
    /\ cell \in {"first", "lower"}
    /\ pc = "metrics"
    /\ LET m == StepMetrics(cell, loc.mv, loc.loss, data[2], loc.y_pred)
       IN loc' = [loc EXCEPT !.logs = m.logs, !.new_mv = m.new_mv]
    /\ pc' = "return"
    /\ UNCHANGED <<cell, epochs, epoch, step, objVars, state, stateArg, data, logs,
                   calls, applyLog, epochLog>>
    /\ UNCHANGED seqVars

\* train_step: state = (tv, ntv, ov, new_metrics_vars); return logs, state.
\* fit() receives both and goes on to the next batch.
TrainStepReturn ==
    /\ cell \in {"first", "lower"}
    /\ pc = "return"
    /\ state' = [tv |-> loc.tv, ntv |-> loc.ntv, ov |-> loc.ov, mv |-> loc.new_mv]
    /\ logs' = loc.logs
    /\ step' = step + 1
    /\ pc' = IF EpochFinished(step) THEN "epoch_end" ELSE "batch"
    /\ UNCHANGED <<cell, epochs, epoch, objVars, stateArg, data, loc, calls,
                   applyLog, epochLog>>
    /\ UNCHANGED seqVars

\* End of an epoch: the loop's state is written back to the objects' variables.
EpochEnd ==
    /\ cell \in {"first", "lower"}
    /\ pc = "epoch_end"
    /\ objVars' = state
    /\ epoch' = epoch + 1
    /\ pc' = IF epoch + 1 = epochs THEN "fit_done" ELSE "epoch_begin"
    /\ UNCHANGED <<cell, epochs, step, state, stateArg, data, loc, logs, calls,
                   applyLog, epochLog>>
    /\ UNCHANGED seqVars

\* -------------------------------------------------------------- evaluate()
\* The step function evaluate() runs for a batch: the class's own test_step when it
\* overrides Model.test_step.
TestFunction(c) == IF c = "eval" THEN "custom" ELSE "builtin"

\* model.evaluate(x, y): the metrics listed in self.metrics are reset, and the
\* loop's state tuple (no optimizer variables) is read from the objects' variables.
EvaluateBegin ==
    /\ \/ cell = "eval" /\ pc = "start"
       \/ cell = "lower" /\ pc = "fit_done"
    /\ objVars' = [objVars EXCEPT !.mv = ResetMetrics(cell, objVars.mv)]
    /\ state' = [tv |-> objVars'.tv, ntv |-> objVars'.ntv, mv |-> objVars'.mv]
    /\ step' = 0
    /\ epochLog' = <<>>
    /\ logs' = NoLogs
    /\ pc' = "test_batch"
    /\ UNCHANGED <<cell, epochs, epoch, stateArg, data, loc, calls, applyLog>>
    /\ UNCHANGED seqVars

\* evaluate() calls self.test_step(state, data) on the next batch; test_step unpacks
\* its arguments.
TestStepCall ==
    /\ pc = "test_batch"
    /\ \E d \in DataSet : data' = d
    /\ stateArg' = state
    /\ loc' = [NoLoc EXCEPT !.tv = state.tv, !.ntv = state.ntv, !.mv = state.mv]
    /\ epochLog' = Append(epochLog, BatchRecord(state, data', FALSE))
    /\ pc' = IF TestFunction(cell) = "custom" THEN "forward" ELSE "builtin_step"
    /\ UNCHANGED <<cell, epochs, epoch, step, objVars, state, logs, calls, applyLog>>
    /\ UNCHANGED seqVars

\* test_step: y_pred, ntv = self.stateless_call(..., training=False);
\* loss = self.compute_loss(x, y, y_pred)
TestForward ==
    /\ cell = "eval"
    /\ pc = "forward"
    /\ LET out == StatelessCall(loc.tv, loc.ntv, data[1], FALSE)
       IN loc' = [loc EXCEPT !.y_pred = out.y_pred, !.ntv = out.ntv,
                             !.loss = MeanSquaredError(data[2], out.y_pred)]
    /\ pc' = "test_metrics"
    /\ UNCHANGED <<cell, epochs, epoch, step, objVars, state, stateArg, data, logs,
                   calls, applyLog, epochLog>>
    /\ UNCHANGED seqVars

\* test_step, from "# Update metrics." on.
TestUpdateMetrics ==
    /\ cell = "eval"
    /\ pc = "test_metrics"
    /\ LET m == MetricLoop(Metrics(cell), loc.mv, <<>>, NoLogs, loc.loss, data[2],
                           loc.y_pred)
       IN loc' = [loc EXCEPT !.logs = m.logs, !.new_mv = m.new_mv]
    /\ pc' = "test_return"
    /\ UNCHANGED <<cell, epochs, epoch, step, objVars, state, stateArg, data, logs,
                   calls, applyLog, epochLog>>
    /\ UNCHANGED seqVars

\* test_step: state = (tv, ntv, new_metrics_vars); return logs, state.
TestStepReturn ==
    /\ cell = "eval"
    /\ pc = "test_return"
    /\ state' = [tv |-> loc.tv, ntv |-> loc.ntv, mv |-> loc.new_mv]
    /\ logs' = loc.logs
    /\ step' = step + 1
    /\ pc' = IF EpochFinished(step) THEN "eval_end" ELSE "test_batch"
    /\ UNCHANGED <<cell, epochs, epoch, objVars, stateArg, data, loc, calls,
                   applyLog, epochLog>>
    /\ UNCHANGED seqVars

\* End of evaluate(): the loop's state is written back to the objects' variables.
EvaluateEnd ==
    /\ cell = "eval"
    /\ pc = "eval_end"
    /\ objVars' = [objVars EXCEPT !.tv = state.tv, !.ntv = state.ntv, !.mv = state.mv]
    /\ pc' = "eval_done"
    /\ UNCHANGED <<cell, epochs, epoch, step, state, stateArg, data, loc, logs, calls,
                   applyLog, epochLog>>
    /\ UNCHANGED seqVars

\* -------------------------------------------------------------- Sequential
\* The i-th layer of the guide: Dense(2, relu), Dense(3, relu), Dense(4), ...
Layer(i) == [name |-> i, units |-> i + 1,
             activation |-> IF i < 3 THEN "relu" ELSE "linear"]

LayerSet == {Layer(i) : i \in 1..MaxLayers}

\* keras.Input(shape=...): the entry of the stack that is not a layer.
InputObject == [name |-> 0, units |-> 0, activation |-> "input"]

\* A Dense layer called on a tensor (abstracted to an integer): activation(kernel
\* * v + bias), with the kernel standing for the layer's width.
Apply(l, v) ==
    LET z == l.units * v - 3
    IN IF l.activation = "relu" /\ z < 0 THEN 0 ELSE z

\* model.layers: the stack without the Input object, which is not a layer.
ModelLayers(ls) == SelectSeq(ls, LAMBDA e : e # InputObject)

\* Whether the model was given its input shape in advance.
HasInput(ls) == ls # <<>> /\ Head(ls) = InputObject

\* A call that runs the layers last to first.
RECURSIVE CallLayersReversed(_, _, _)
CallLayersReversed(ls, v, trace) ==
    IF ls = <<>>
    THEN [y |-> v, trace |-> trace]
    ELSE CallLayersReversed(SubSeq(ls, 1, Len(ls) - 1), Apply(ls[Len(ls)], v),
                            Append(trace, [layer |-> ls[Len(ls)], input |-> v,
                                           output |-> Apply(ls[Len(ls)], v)]))

\* Sequential.__call__: the layers run in order, each on the previous one's output;
\* returns the output and the applications made.
RECURSIVE CallLayers(_, _, _)
CallLayers(ls, v, trace) ==
    IF ls = <<>>
    THEN [y |-> v, trace |-> trace]
    ELSE CallLayers(Tail(ls), Apply(Head(ls), v),
                    Append(trace, [layer |-> Head(ls), input |-> v,
                                   output |-> Apply(Head(ls), v)]))

\* The weights of a built stack: a kernel and a bias per Dense layer.
RECURSIVE WeightsOf(_)
WeightsOf(ls) ==
    IF ls = <<>> THEN <<>>
    ELSE <<[layer |-> Head(ls).name, var |-> "kernel"],
           [layer |-> Head(ls).name, var |-> "bias"]>> \o WeightsOf(Tail(ls))

\* A model.weights that is an empty list while the model is not built.
ReadWeightsEmpty(ls, built) ==
    [op |-> "weights", error |-> FALSE, input |-> 0,
     value |-> IF built THEN WeightsOf(ModelLayers(ls)) ELSE <<>>]

\* model.weights: an error while the model is not built.
ReadWeights(ls, built) ==
    IF built
    THEN [op |-> "weights", error |-> FALSE, input |-> 0, value |-> WeightsOf(ModelLayers(ls))]
    ELSE [op |-> "weights", error |-> TRUE, input |-> 0, value |-> <<>>]

\* model.summary(): cannot be called while the model is not built; one row per layer.
Summary(ls, built) ==
    IF built
    THEN [op |-> "summary", error |-> FALSE, input |-> 0,
          value |-> [i \in 1..Len(ModelLayers(ls)) |-> ModelLayers(ls)[i].name]]
    ELSE [op |-> "summary", error |-> TRUE, input |-> 0, value |-> <<>>]

\* The stack after add(layer).
AddLayer(ls, l) == Append(ls, l)

\* A pop() that removes the first entry of the stack.
PopFirst(ls) == Tail(ls)

\* The stack after pop().
PopLayer(ls) == SubSeq(ls, 1, Len(ls) - 1)

\* A stack whose input shape is known is (re)built as soon as it has a layer; any
\* other stack has to see input data first.
BuiltAfterChange(ls) == HasInput(ls) /\ ModelLayers(ls) # <<>>

\* model.add(keras.Input(shape=...)) on an empty model
SeqAddInput ==
    /\ cell = "seq"
    /\ seqLayers = <<>>
    /\ seqLayers' = <<InputObject>>
    /\ seqBuilt' = BuiltAfterChange(seqLayers')
    /\ seqResult' = [NoResult EXCEPT !.op = "add_input"]
    /\ UNCHANGED <<seqCalled, seqOps, seqCounts, seqTrace>>
    /\ UNCHANGED <<cell, pc>>
    /\ UNCHANGED trainVars

\* model.add(layer)
SeqAdd ==
    /\ cell = "seq"
    /\ Len(ModelLayers(seqLayers)) < MaxLayers
    /\ seqCounts.adds + seqCounts.pops < MaxOps
    /\ \E l \in LayerSet :
           /\ \A i \in 1..Len(seqLayers) : seqLayers[i] # l
           /\ seqLayers' = AddLayer(seqLayers, l)
           /\ seqOps' = Append(seqOps, l)
    /\ seqBuilt' = BuiltAfterChange(seqLayers')
    /\ seqCounts' = [seqCounts EXCEPT !.adds = @ + 1]
    /\ seqResult' = [NoResult EXCEPT !.op = "add"]
    /\ UNCHANGED <<seqCalled, seqTrace>>
    /\ UNCHANGED <<cell, pc>>
    /\ UNCHANGED trainVars

\* model.pop()
SeqPop ==
    /\ cell = "seq"
    /\ ModelLayers(seqLayers) # <<>>
    /\ seqCounts.adds + seqCounts.pops < MaxOps
    /\ seqLayers' = PopLayer(seqLayers)
    /\ seqOps' = SubSeq(seqOps, 1, Len(seqOps) - 1)
    /\ seqBuilt' = BuiltAfterChange(seqLayers')
    /\ seqCounts' = [seqCounts EXCEPT !.pops = @ + 1]
    /\ seqResult' = [NoResult EXCEPT !.op = "pop"]
    /\ UNCHANGED <<seqCalled, seqTrace>>
    /\ UNCHANGED <<cell, pc>>
    /\ UNCHANGED trainVars

\* y = model(x): the model sees input data, which builds it.
SeqCall ==
    /\ cell = "seq"
    /\ ModelLayers(seqLayers) # <<>>
    /\ \E x \in TestInputs :
           LET r == CallLayers(ModelLayers(seqLayers), x, <<>>)
           IN /\ seqResult' = [op |-> "call", error |-> FALSE, input |-> x, value |-> <<r.y>>]
              /\ seqTrace' = r.trace
    /\ seqBuilt' = TRUE
    /\ seqCalled' = TRUE
    /\ UNCHANGED <<seqLayers, seqOps, seqCounts>>
    /\ UNCHANGED <<cell, pc>>
    /\ UNCHANGED trainVars

\* model.weights
SeqWeights ==
    /\ cell = "seq"
    /\ seqResult' = ReadWeights(seqLayers, seqBuilt)
    /\ UNCHANGED <<seqLayers, seqBuilt, seqCalled, seqOps, seqCounts, seqTrace>>
    /\ UNCHANGED <<cell, pc>>
    /\ UNCHANGED trainVars

\* model.summary()
SeqSummary ==
    /\ cell = "seq"
    /\ seqResult' = Summary(seqLayers, seqBuilt)
    /\ UNCHANGED <<seqLayers, seqBuilt, seqCalled, seqOps, seqCounts, seqTrace>>
    /\ UNCHANGED <<cell, pc>>
    /\ UNCHANGED trainVars

\* ------------------------------------------------------------------ claims
FitCells == {"first", "lower"}
StepPcs == {"grad", "apply", "metrics", "return"}

\* The values a logs object holds, one per entry: a bare result holds one value.
LogValues(lg) ==
    IF lg.kind = "scalar" THEN <<lg.value>>
    ELSE IF lg.kind = "dict" THEN <<lg.value.loss, lg.value.mae>>
    ELSE <<>>

\* The current value of the k-th metric of self.metrics under metric variables mv.
CurrentValue(c, k, mv) ==
    StatelessResult(Slice(mv, OffsetOf(Metrics(c)[k], MetricObjects),
                          OffsetOf(Metrics(c)[k], MetricObjects) + Metrics(c)[k].nvars))

\* lg holds the current value of every metric of self.metrics.
CarriesAllMetrics(c, lg, mv) ==
    \A i \in 1..Len(Metrics(c)) :
        \E j \in 1..Len(LogValues(lg)) : LogValues(lg)[j] = CurrentValue(c, i, mv)

\* C1: in the first example, the logs returned by a train_step call carry the
\* current value of the loss metric and of every other metric of self.metrics.
C1_LogsCarryEveryMetric ==
    (cell = "first" /\ pc = "return") => CarriesAllMetrics(cell, loc.logs, loc.new_mv)

\* C2: while train_step runs, no variable held by the model, the optimizer or the
\* metric objects is written and the state tuple passed in stays as it was; the
\* updated values are the ones of the returned state tuple.
C2_TrainStepStateless ==
    [][(cell \in FitCells /\ pc \in StepPcs) =>
          /\ objVars' = objVars
          /\ stateArg' = stateArg
          /\ pc = "return" =>
                state' = [tv |-> loc.tv, ntv |-> loc.ntv, ov |-> loc.ov, mv |-> loc.new_mv]]_vars

\* C2 witness: a train_step has returned updated trainable, non-trainable, optimizer
\* and metric values, and the objects and the tuple passed in still hold the old ones.
C2_Witness ==
    /\ cell \in FitCells /\ pc \in {"batch", "epoch_end"} /\ step > 0
    /\ state.tv # stateArg.tv /\ state.ntv # stateArg.ntv
    /\ state.ov # stateArg.ov /\ state.mv # stateArg.mv
    /\ objVars.tv # state.tv /\ objVars.mv # state.mv

\* C3: fit() calls the overridden train_step once per batch: E * B calls when it is
\* done, one more per batch on the way, and no batch goes to another step function.
C3_TrainStepOncePerBatch ==
    cell \in FitCells =>
        /\ calls.builtin = 0
        /\ pc \in {"batch", "epoch_end"} => calls.custom = epoch * BatchesPerEpoch + step
        /\ pc \in StepPcs => calls.custom = epoch * BatchesPerEpoch + step + 1
        /\ pc = "fit_done" => calls.custom = epochs * BatchesPerEpoch

\* C3 witness: a fit() of MaxEpochs epochs is done.
C3_Witness ==
    /\ cell = "first" /\ pc = "fit_done" /\ epochs = MaxEpochs /\ epochs > 1
    /\ calls.custom = MaxEpochs * BatchesPerEpoch

\* Mean of the k-th component of the batch records of the current epoch.
EpochMean(k) ==
    IF epochLog = <<>> THEN 0
    ELSE SumSeq([i \in 1..Len(epochLog) |-> epochLog[i][k]]) \div Len(epochLog)

\* C4: in the lower-level example the metrics listed by the `metrics` property are
\* reset at the start of each epoch and of evaluate(), so the loss and mae reported
\* during an epoch are the means over the batches of that epoch alone.
C4_MetricsResetEachEpoch ==
    cell = "lower" =>
        /\ (pc \in {"batch", "test_batch"} /\ step = 0) =>
               (objVars.mv = Zeros(NumMetricVars) /\ state.mv = Zeros(NumMetricVars))
        /\ (pc \in {"batch", "epoch_end"} /\ step > 0) =>
               /\ logs.kind = "dict"
               /\ logs.value.loss = EpochMean(1)
               /\ logs.value.mae = EpochMean(2)

\* C4 witness: a batch of a later epoch has been reported: the metrics count the
\* batches of this epoch alone, fewer than the optimizer has seen.
C4_Witness ==
    /\ cell = "lower" /\ epoch >= 1 /\ pc \in {"batch", "epoch_end"} /\ step > 0
    /\ logs.kind = "dict" /\ logs.value.loss > 0 /\ logs.value.mae > 0
    /\ state.mv[2] = step /\ state.mv[4] = step
    /\ state.ov = epoch * BatchesPerEpoch + step

\* C4 witness for evaluate(): evaluate() has started on metrics a fit() had left
\* non-zero.
C4_EvaluateWitness ==
    cell = "lower" /\ pc = "test_batch" /\ state.mv = Zeros(NumMetricVars) /\ logs = NoLogs
    /\ epochs = MaxEpochs /\ objVars.tv # 0

\* C8: within one train_step the loss, y_pred and the gradients come from the
\* trainable variables of the input state; the optimizer is then applied exactly once
\* with (optimizer_variables, grads, trainable_variables) of that state; the metrics
\* are updated last, with the loss and y_pred computed before the update.
C8_StepOrder ==
    (cell \in FitCells /\ pc \in StepPcs) =>
        LET g == ValueAndGrad(stateArg.tv, stateArg.ntv, data[1], data[2], TRUE)
            before == [ov |-> stateArg.ov, grads |-> g.grads, tv |-> stateArg.tv]
        IN /\ pc = "grad" => (applyLog = <<>> /\ loc.new_mv = <<>>)
           /\ pc \in {"apply", "metrics", "return"} =>
                  (loc.loss = g.loss /\ loc.y_pred = g.y_pred /\ loc.grads = g.grads)
           /\ pc = "apply" => (applyLog = <<>> /\ loc.tv = stateArg.tv /\ loc.new_mv = <<>>)
           /\ pc = "metrics" => (applyLog = <<before>> /\ loc.new_mv = <<>>)
           /\ pc = "return" =>
                  /\ applyLog = <<before>>
                  /\ loc.new_mv = <<stateArg.mv[1] + g.loss, stateArg.mv[2] + 1,
                                    stateArg.mv[3] + Abs(data[2] - g.y_pred),
                                    stateArg.mv[4] + 1>>

\* C8 witness: a train_step is about to return whose update changed the weight, so
\* that the loss and the prediction of the updated weight differ from the ones used.
C8_Witness ==
    /\ cell \in FitCells /\ pc = "return" /\ loc.tv # stateArg.tv
    /\ ComputeLossAndUpdates(loc.tv, stateArg.ntv, data[1], data[2], TRUE).loss # loc.loss
    /\ Abs(data[2] - StatelessCall(loc.tv, stateArg.ntv, data[1], TRUE).y_pred)
           # Abs(data[2] - loc.y_pred)

\* C5: calling a Sequential model of the layers <<l1, l2, l3>> on x gives
\* l3(l2(l1(x))): each layer is applied exactly once, in the order given, on the
\* previous layer's output.
C5_CallIsComposition ==
    (cell = "seq" /\ seqResult.op = "call") =>
        LET ls == ModelLayers(seqLayers)
            x == seqResult.input
        IN /\ Len(seqTrace) = Len(ls)
           /\ \A i \in 1..Len(ls) :
                  /\ seqTrace[i].layer = ls[i]
                  /\ seqTrace[i].input = (IF i = 1 THEN x ELSE seqTrace[i - 1].output)
                  /\ seqTrace[i].output = Apply(ls[i], seqTrace[i].input)
           /\ seqResult.value = <<seqTrace[Len(ls)].output>>
           /\ Len(ls) = 3 =>
                  seqResult.value = <<Apply(ls[3], Apply(ls[2], Apply(ls[1], x)))>>

\* C5 witness: a model of three layers was called, and running its layers in the
\* reverse order would have given another output.
C5_Witness ==
    /\ cell = "seq" /\ seqResult.op = "call" /\ Len(ModelLayers(seqLayers)) = 3
    /\ LET ls == ModelLayers(seqLayers)
           x == seqResult.input
       IN seqResult.value # <<Apply(ls[1], Apply(ls[2], Apply(ls[3], x)))>>

\* C6: after any add() and pop() calls, model.layers is the list the same appends
\* and last-element removals give, and holds one layer per add() less one per pop().
C6_BehavesLikeList ==
    cell = "seq" =>
        /\ ModelLayers(seqLayers) = seqOps
        /\ Len(ModelLayers(seqLayers)) = seqCounts.adds - seqCounts.pops

\* C6 witness: three add() calls followed by one pop() leave 2 layers.
C6_Witness ==
    /\ cell = "seq" /\ seqResult.op = "pop"
    /\ seqCounts = [adds |-> 3, pops |-> 1]
    /\ Len(ModelLayers(seqLayers)) = 2

\* C7: a Sequential model made without an input shape is not built until it is
\* first called on data: until then reading model.weights is an error (not an empty
\* list) and so is model.summary(); once built, model.weights holds a kernel and a
\* bias per layer.
C7_UnbuiltModelErrors ==
    cell = "seq" =>
        /\ (~HasInput(seqLayers) /\ ~seqCalled) => ~seqBuilt
        /\ (seqResult.op \in {"weights", "summary"} /\ ~HasInput(seqLayers) /\ ~seqCalled)
               => seqResult.error
        /\ (seqResult.op = "weights" /\ seqBuilt) =>
               (~seqResult.error /\ Len(seqResult.value) = 2 * Len(ModelLayers(seqLayers)))

\* C7 witness: model.weights was read on a model of three layers that has no input
\* shape and was never called.
C7_Witness ==
    /\ cell = "seq" /\ seqResult.op = "weights" /\ seqResult.error
    /\ Len(seqLayers) = 3 /\ ~HasInput(seqLayers) /\ ~seqCalled

Next ==
    \/ FitBegin
    \/ EpochBegin
    \/ TrainStepCall
    \/ ComputeGradients
    \/ ApplyOptimizer
    \/ UpdateMetrics
    \/ TrainStepReturn
    \/ EpochEnd
    \/ EvaluateBegin
    \/ TestStepCall
    \/ TestForward
    \/ TestUpdateMetrics
    \/ TestStepReturn
    \/ EvaluateEnd
    \/ SeqAddInput
    \/ SeqAdd
    \/ SeqPop
    \/ SeqCall
    \/ SeqWeights
    \/ SeqSummary

Spec == Init /\ [][Next]_vars
====
